---- MODULE Spec2Model ----
(***************************************************************************)
(* Model of the two utilities of the repository:                           *)
(*   src/Libraries.py      the image fetcher (fetch_and_save_image, main)  *)
(*   src/Data_analysis.py  the Iris pipeline (load, analyze, visualize)    *)
(* Both work on the directory "Fetched_Images".  The directory is a        *)
(* function from file names to byte sequences.                             *)
(***************************************************************************)
EXTENDS Integers, Sequences, FiniteSets, TLC

\* ------------------------------------------------------------------ bounds
\* number of fetch_and_save_image calls explored
MaxCalls == 3
\* number of calls explored with the full set of responses
MaxProbes == 2
\* number of runs of Data_analysis.py explored
MaxRuns == 2
\* at most MaxUrls comma-separated fields are typed at the prompt
MaxUrls == 2

\* ------------------------------------------------------------- byte strings
\* Text is a sequence of one-character strings.
Lower(s) ==
    [i \in 1..Len(s) |->
        CASE s[i] = "I" -> "i" [] s[i] = "M" -> "m" [] s[i] = "A" -> "a"
          [] s[i] = "G" -> "g" [] s[i] = "E" -> "e" [] s[i] = "P" -> "p"
          [] s[i] = "N" -> "n" [] s[i] = "T" -> "t" [] s[i] = "X" -> "x"
          [] OTHER -> s[i]]

StartsWith(s, p) == Len(s) >= Len(p) /\ SubSeq(s, 1, Len(p)) = p

\* str.split('/')[-1]: the text after the last '/'.
AfterLastSlash(s) ==
    LET idx == {i \in 1..Len(s) : s[i] = "/"}
        last == IF idx = {} THEN 0 ELSE CHOOSE i \in idx : \A j \in idx : j <= i
    IN  SubSeq(s, last + 1, Len(s))

HasSlash(s) == \E i \in 1..Len(s) : s[i] = "/"

Digits == <<"0", "1", "2", "3", "4", "5", "6", "7", "8", "9">>
IsDigit(c) == \E d \in 1..10 : Digits[d] = c
DigitVal(c) == (CHOOSE d \in 1..10 : Digits[d] = c) - 1

\* int(text): the decimal value; a text that is no number raises ValueError.
IsNumber(s) == Len(s) > 0 /\ \A i \in 1..Len(s) : IsDigit(s[i])
RECURSIVE ParseInt(_)
ParseInt(s) ==
    IF Len(s) = 0 THEN 0
    ELSE 10 * ParseInt(SubSeq(s, 1, Len(s) - 1)) + DigitVal(s[Len(s)])

\* ---------------------------------------------------------------- headers
\* Response headers are a dictionary: a function on the names present.
HeaderGet(headers, key, default) ==
    IF key \in DOMAIN headers THEN headers[key] ELSE default

image_prefix == <<"i", "m", "a", "g", "e", "/">>

is_valid_image_content_type_default(headers) ==
    StartsWith(Lower(HeaderGet(headers, "Content-Type",
                               image_prefix \o <<"j", "p", "e", "g">>)),
               image_prefix)

is_valid_image_content_type(headers) ==
    StartsWith(Lower(HeaderGet(headers, "Content-Type", <<>>)), image_prefix)

MaxBytes == 10 * 1024 * 1024

\* line 52: `content_length and int(content_length) > 10 * 1024 * 1024`,
\* defined when the header is absent, empty or a number.
TooLarge_never(headers) == FALSE

TooLarge(headers) ==
    LET content_length == HeaderGet(headers, "Content-Length", <<>>)
    IN  content_length # <<>> /\ ParseInt(content_length) > MaxBytes

\* int() raises ValueError on a non-empty text that is no number.
LengthUnparsable(headers) ==
    LET content_length == HeaderGet(headers, "Content-Length", <<>>)
    IN  content_length # <<>> /\ ~IsNumber(content_length)

\* ------------------------------------------------------------- file names
\* A file name is  temp_^temps  stem  [_ts]  _k1 _k2 ...  . ext :
\* temps counts leading "temp_" prefixes, sfx lists the numeric suffixes that
\* stand before the extension, ext = <<>> means the name has no '.'.
\* Stems never begin with "temp_" nor end in "_<digits>", so two records are
\* equal exactly when the names they stand for are equal.
MkName(temps, stem, ts, sfx, ext) ==
    [temps |-> temps, stem |-> stem, ts |-> ts, sfx |-> sfx, ext |-> ext]

png == <<"p", "n", "g">>
NoName == MkName(0, "", -1, <<>>, <<>>)

\* '.' in filename
HasDot(name) == name.ext # <<>>

\* f"temp_{filename}"
TempName(filename) == [filename EXCEPT !.temps = @ + 1]

\* existing_file.startswith('temp_')
StartsWithTemp(name) == name.temps > 0

\* f"{base}_{counter}{ext}" with base, ext = os.path.splitext(filepath)
Suffixed(name, counter) == [name EXCEPT !.sfx = Append(@, counter)]

\* f"image_{datetime.now().strftime('%Y%m%d_%H%M%S')}.{ext}"
TimestampName(now, ext) == MkName(0, "image", now, <<>>, ext)

\* ------------------------------------------------------------- file system
\* os.path.exists for a path inside the directory
Exists(files, name) == name \in DOMAIN files

get_unique_filename_overwrite(files, filepath) == filepath

get_unique_filename(files, filepath) ==
    IF ~Exists(files, filepath) THEN filepath
    ELSE LET free == {c \in 1..(Cardinality(DOMAIN files) + 1) :
                          ~Exists(files, Suffixed(filepath, c))}
             counter == CHOOSE c \in free : \A d \in free : c <= d
         IN  Suffixed(filepath, counter)

\* SHA-256 of a byte sequence; distinct contents have distinct digests.
Sha256(bytes) == [digest |-> bytes]

calculate_file_hash(files, name) == Sha256(files[name])

\* open(path, 'wb'); write(bytes): the file holds exactly bytes afterwards
WriteFile(files, name, bytes) ==
    [n \in DOMAIN files \cup {name} |-> IF n = name THEN bytes ELSE files[n]]

\* os.remove(path)
RemoveFile(files, name) == [n \in DOMAIN files \ {name} |-> files[n]]

\* os.rename(src, dst): dst is replaced when it exists
RenameFile(files, src, dst) ==
    [n \in (DOMAIN files \ {src}) \cup {dst} |->
        IF n = dst THEN files[src] ELSE files[n]]

EmptyDir == [n \in {} |-> <<>>]


\* ------------------------------------------------------------------ inputs
Text_image_png == image_prefix \o png
Text_IMAGE_PNG == <<"I", "M", "A", "G", "E", "/", "P", "N", "G">>
Text_text_html == <<"t", "e", "x", "t", "/", "h", "t", "m", "l">>
Text_at_limit == <<"1", "0", "4", "8", "5", "7", "6", "0">>
Text_over_limit == <<"1", "0", "4", "8", "5", "7", "6", "1">>

\* header values: <<>> stands for "header absent", <<v>> for the value v
ContentTypes == {<<>>, <<Text_text_html>>, <<Text_image_png>>, <<Text_IMAGE_PNG>>}
ContentLengths == {<<>>, <<Text_at_limit>>, <<Text_over_limit>>, <<<<"2", "x">>>>}

MkHeaders(ct, cl) ==
    [k \in (IF ct = <<>> THEN {} ELSE {"Content-Type"})
           \cup (IF cl = <<>> THEN {} ELSE {"Content-Length"}) |->
        IF k = "Content-Type" THEN ct[1] ELSE cl[1]]

NoHeaders == MkHeaders(<<>>, <<>>)
Headers == {MkHeaders(ct, cl) : ct \in ContentTypes, cl \in ContentLengths}

\* response bodies (response.content)
Bodies == {<<1, 2>>, <<1, 3>>}

\* what requests.get gives: no request made, an exception, or a response
MkNet(kind, status, headers, body) ==
    [kind |-> kind, status |-> status, headers |-> headers, body |-> body]

NoRequest == MkNet("none", 0, NoHeaders, <<>>)
Failures == {MkNet("timeout", 0, NoHeaders, <<>>), MkNet("response", 404, NoHeaders, <<>>)}

\* every combination of headers and body
Responses ==
    Failures \cup {MkNet("response", 200, h, b) : h \in Headers, b \in Bodies}

\* one response of each kind the code tells apart, with every body
CoreResponses ==
    Failures
    \cup {MkNet("response", 200, MkHeaders(<<Text_text_html>>, <<>>), <<1, 2>>),
          MkNet("response", 200, MkHeaders(<<Text_image_png>>, <<Text_over_limit>>), <<1, 2>>)}
    \cup {MkNet("response", 200, MkHeaders(<<Text_image_png>>, <<>>), b) : b \in Bodies}

\* URLs: the scheme and the last segment of the path
MkUrl(scheme, name) == [scheme |-> scheme, name |-> name]
Urls ==
    {MkUrl("http", MkName(0, "a", -1, <<>>, png)),
     MkUrl("https", MkName(1, "a", -1, <<>>, png)),
     MkUrl("https", NoName),
     MkUrl("ftp", MkName(0, "a", -1, <<>>, png))}

\* the values datetime.now() takes, in seconds (wall clock, not monotonic)
Instants == {0, 1}

\* ------------------------------------------------------------------- state
VARIABLES
    dirExists,   \* the directory Fetched_Images exists
    files,       \* its files: name -> bytes
    permanent,   \* the names a rename (line 84) put in place
    pc,          \* position inside fetch_and_save_image
    cur,         \* the call in progress, or the last one, with its result
    pre,         \* the directory when that call started
    prev,        \* the call before it
    calls,       \* number of calls so far
    mpc,         \* position inside main() of Libraries.py ("off": not run)
    urls,        \* main's list of URLs
    idx,         \* main's loop position
    successful,  \* main's successful_fetches
    log,         \* the calls main has made and what they returned
    summary,     \* the <<successful, total>> main printed
    vpc,         \* position inside main() of Data_analysis.py
    vexit,       \* how its last run ended
    runs         \* number of runs of Data_analysis.py started

fsvars == <<dirExists, files, permanent>>
callvars == <<pc, cur, pre, prev, calls>>
mainvars == <<mpc, urls, idx, successful, log, summary>>
vizvars == <<vpc, vexit, runs>>
vars == <<fsvars, callvars, mainvars, vizvars>>

NoCall ==
    [url |-> MkUrl("", NoName), net |-> NoRequest, accepted |-> FALSE,
     filename |-> NoName, temp |-> NoName, path |-> NoName,
     result |-> "none", outcome |-> "none"]

Snapshot == [dirExists |-> dirExists, files |-> files, permanent |-> permanent]

\* the files of a directory that hold exactly these bytes
Holding(fs, names, bytes) == {n \in names : fs[n] = bytes}

\* what is remembered of the call before the current one: for a call that
\* reached the directory, its body, names and result, and whether the
\* directory held its bytes when it started
Summary(call, before) ==
    IF call.accepted
    THEN [accepted |-> TRUE, body |-> call.net.body, filename |-> call.filename,
          path |-> call.path, result |-> call.result, outcome |-> call.outcome,
          fresh |-> Holding(before.files, DOMAIN before.files, call.net.body) = {}]
    ELSE [accepted |-> FALSE, body |-> <<>>, filename |-> NoName,
          path |-> NoName, result |-> call.result, outcome |-> "rejected",
          fresh |-> FALSE]

\* ---------------------------------------------------- fetch_and_save_image
\* lines 36-54: the checks before anything is written, in the code's order
Verdict(url, net) ==
    IF url.scheme \notin {"http", "https"} THEN "scheme"
    ELSE IF net.kind # "response" \/ net.status \notin 200..299 THEN "request"
    ELSE IF ~is_valid_image_content_type(net.headers) THEN "notimage"
    ELSE IF LengthUnparsable(net.headers) THEN "error in int"
    ELSE IF TooLarge(net.headers) THEN "toolarge"
    ELSE "accept"

\* lines 57-61
DeriveFilename(url, headers, now) ==
    IF url.name = NoName \/ ~HasDot(url.name)
    THEN LET content_type ==
                 HeaderGet(headers, "Content-Type", image_prefix \o <<"j", "p", "e", "g">>)
             ext == IF HasSlash(content_type) THEN AfterLastSlash(content_type)
                    ELSE <<"j", "p", "g">>
         IN  TimestampName(now, ext)
    ELSE url.name

\* lines 112-114: the loop of main counts a call that returned True
Count(n, ok) == IF ok THEN n + 1 ELSE n

\* line 112: the loop goes on to the next URL whatever the call returned
NextIndex_stop(i, ok) == IF ok THEN i + 1 ELSE Len(urls) + 1

NextIndex(i, ok) == i + 1

\* the outcomes of the generic handler (lines 93-95), by where the error arose
IOErrors == {"error in write", "error in hash", "error in rename"}

\* a return of fetch_and_save_image: to the caller, which may be main's loop
Return(call, ok, outcome, path) ==
    /\ pc' = "idle"
    /\ cur' = [call EXCEPT !.result = IF ok THEN "True" ELSE "False",
                           !.outcome = outcome, !.path = path]
    /\ IF mpc = "loop"
       THEN /\ successful' = Count(successful, ok)
            /\ idx' = NextIndex(idx, ok)
            /\ log' = Append(log, [url |-> call.url, ok |-> ok])
            /\ UNCHANGED <<mpc, urls, summary>>
       ELSE UNCHANGED mainvars

\* lines 34-65: from the call to the creation of the directory; line 61
\* reads the clock when the URL gives no file name
Validate(url, net, limit) ==
    /\ pc = "idle"
    /\ calls < limit
    /\ vpc \notin {"loaded", "analyzed"}
    /\ calls' = calls + 1
    /\ pre' = Snapshot
    /\ prev' = Summary(cur, pre)
    /\ LET verdict == Verdict(url, net)
           call == [NoCall EXCEPT !.url = url, !.net = net]
       IN  IF verdict = "accept"
           THEN /\ dirExists' = TRUE
                /\ pc' = "write"
                /\ \E filename \in {DeriveFilename(url, net.headers, now) : now \in Instants} :
                      cur' = [call EXCEPT !.accepted = TRUE, !.filename = filename,
                                          !.temp = TempName(filename),
                                          !.result = "pending", !.outcome = "pending"]
                /\ UNCHANGED <<files, permanent, mainvars>>
           ELSE /\ Return(call, FALSE, verdict, NoName)
                /\ UNCHANGED fsvars
    /\ UNCHANGED vizvars

\* lines 69-70: open(temp_filepath, 'wb') and write(response.content)
WriteTemp ==
    /\ pc = "write"
    /\ files' = WriteFile(files, cur.temp, cur.net.body)
    /\ pc' = "hash"
    /\ UNCHANGED <<dirExists, permanent, cur, pre, prev, calls, mainvars, vizvars>>

\* the write fails after k bytes (disk full, I/O error): caught at line 93
WriteTempFails ==
    /\ pc = "write"
    /\ \E k \in 0..(Len(cur.net.body) - 1) :
          files' = WriteFile(files, cur.temp, SubSeq(cur.net.body, 1, k))
    /\ Return(cur, FALSE, "error in write", NoName)
    /\ UNCHANGED <<dirExists, permanent, pre, prev, calls, vizvars>>

\* lines 73-77: the files the duplicate check compares against
Compared(fs) == {n \in DOMAIN fs : ~StartsWithTemp(n)}

IsDuplicate(fs, temp) ==
    \E existing_file \in Compared(fs) :
        calculate_file_hash(fs, existing_file) = calculate_file_hash(fs, temp)

\* lines 72-80: hash the temporary file, compare, reject a duplicate
Dedupe ==
    /\ pc = "hash"
    /\ IF IsDuplicate(files, cur.temp)
       THEN /\ files' = RemoveFile(files, cur.temp)
            /\ permanent' = permanent \ {cur.temp}
            /\ Return(cur, FALSE, "duplicate", NoName)
       ELSE /\ pc' = "promote"
            /\ UNCHANGED <<files, permanent, cur, mainvars>>
    /\ UNCHANGED <<dirExists, pre, prev, calls, vizvars>>

\* hashing or listing raises (unreadable file, I/O error): caught at line 93
DedupeFails ==
    /\ pc = "hash"
    /\ Return(cur, FALSE, "error in hash", NoName)
    /\ UNCHANGED <<fsvars, pre, prev, calls, vizvars>>

\* lines 83-88: choose the final name and rename the temporary file to it
Promote ==
    /\ pc = "promote"
    /\ LET filepath == get_unique_filename(files, cur.filename)
       IN  /\ files' = RenameFile(files, cur.temp, filepath)
           /\ permanent' = (permanent \ {cur.temp}) \cup {filepath}
           /\ Return(cur, TRUE, "saved", filepath)
    /\ UNCHANGED <<dirExists, pre, prev, calls, vizvars>>

\* os.rename raises: caught at line 93
PromoteFails ==
    /\ pc = "promote"
    /\ Return(cur, FALSE, "error in rename", NoName)
    /\ UNCHANGED <<fsvars, pre, prev, calls, vizvars>>

FetchStep ==
    \/ WriteTemp \/ WriteTempFails
    \/ Dedupe \/ DedupeFails
    \/ Promote \/ PromoteFails

\* the request is made only for an http(s) URL
Answers(url, responses) ==
    IF url.scheme \in {"http", "https"} THEN responses ELSE {NoRequest}

\* a direct call of fetch_and_save_image(url)
Call ==
    /\ mpc = "off"
    /\ \E url \in Urls :
          \E net \in Answers(url, CoreResponses) : Validate(url, net, MaxCalls)

\* the same, the server answering with any headers and body
Probe ==
    /\ mpc = "off"
    /\ \E url \in Urls :
          \E net \in Answers(url, Responses) : Validate(url, net, MaxProbes)

InitCommon ==
    /\ dirExists = FALSE
    /\ files = EmptyDir
    /\ permanent = {}
    /\ pc = "idle"
    /\ cur = NoCall
    /\ pre = [dirExists |-> FALSE, files |-> EmptyDir, permanent |-> {}]
    /\ prev = Summary(NoCall, [files |-> EmptyDir])
    /\ calls = 0
    /\ urls = <<>>
    /\ idx = 0
    /\ successful = 0
    /\ log = <<>>
    /\ summary = <<>>
    /\ vpc = "idle"
    /\ vexit = "none"
    /\ runs = 0

InitFetch == InitCommon /\ mpc = "off"

NextFetch == Call \/ FetchStep

SpecFetch == InitFetch /\ [][NextFetch]_vars

NextProbe == Probe \/ FetchStep

SpecProbe == InitFetch /\ [][NextProbe]_vars

\* ------------------------------------------------------ main (Libraries.py)
\* One field of the typed line, between two commas: blanks, then at most one
\* URL, then blanks.
MkField(lead, url, trail) == [lead |-> lead, url |-> url, trail |-> trail]
Fields ==
    {MkField(0, <<>>, 0), MkField(1, <<>>, 0)}
    \cup {MkField(0, <<u>>, 0) : u \in Urls} \cup {MkField(1, <<u>>, 1) : u \in Urls}

\* urls_input.split(','): one field at least
TypedLines == UNION {[1..n -> Fields] : n \in 1..MaxUrls}

\* url.strip()
Strip(field) == field.url

\* line 104: [url.strip() for url in urls_input.split(',') if url.strip()]
RECURSIVE ParseUrls(_)
ParseUrls(fields) ==
    IF fields = <<>> THEN <<>>
    ELSE LET first == Strip(Head(fields))
         IN  (IF first # <<>> THEN <<first[1]>> ELSE <<>>) \o ParseUrls(Tail(fields))

\* lines 103-111: read the line; without a URL main returns
MainPrompt ==
    /\ mpc = "prompt"
    /\ pc = "idle"
    /\ \E line \in TypedLines :
          /\ urls' = ParseUrls(line)
          /\ mpc' = IF ParseUrls(line) = <<>> THEN "done" ELSE "loop"
    /\ idx' = 1
    /\ successful' = 0
    /\ UNCHANGED <<log, summary, fsvars, callvars, vizvars>>

\* lines 112-113: the loop calls fetch_and_save_image(url) for the next URL
MainCall ==
    /\ mpc = "loop"
    /\ idx <= Len(urls)
    /\ \E net \in Answers(urls[idx], CoreResponses) : Validate(urls[idx], net, MaxUrls)

\* line 116: the summary, after the loop
MainSummary ==
    /\ mpc = "loop"
    /\ pc = "idle"
    /\ idx > Len(urls)
    /\ summary' = <<successful, Len(urls)>>
    /\ mpc' = "done"
    /\ UNCHANGED <<urls, idx, successful, log, fsvars, callvars, vizvars>>

InitMain == InitCommon /\ mpc = "prompt"

NextMain == MainPrompt \/ MainCall \/ FetchStep \/ MainSummary

SpecMain == InitMain /\ [][NextMain]_vars

\* -------------------------------------------------- main (Data_analysis.py)
ChartName(stem) == MkName(0, stem, -1, <<>>, png)
Charts ==
    <<ChartName("petal_length_trend"), ChartName("avg_petal_length_bar"),
      ChartName("sepal_length_histogram"), ChartName("sepal_vs_petal_scatter")>>
ChartNames == {Charts[i] : i \in 1..4}

\* the bytes savefig writes for the i-th chart
ChartBytes(i) == <<0, i>>

\* the directory after the first k calls of plt.savefig
RECURSIVE SaveCharts(_, _)
SaveCharts(fs, k) ==
    IF k = 0 THEN fs
    ELSE WriteFile(SaveCharts(fs, k - 1), Charts[k], ChartBytes(k))

Sequential == pc = "idle" /\ mpc \in {"off", "done"}

\* lines 7-30 and 110: the table is loaded
LoadAndExplore ==
    /\ vpc = "idle"
    /\ Sequential
    /\ runs < MaxRuns
    /\ runs' = runs + 1
    /\ vpc' = "loaded"
    /\ vexit' = "running"
    /\ UNCHANGED <<fsvars, callvars, mainvars>>

\* lines 32-34 and 111-112: an error while loading is caught, None is
\* returned and main returns
LoadAndExploreFails ==
    /\ vpc = "idle"
    /\ Sequential
    /\ runs < MaxRuns
    /\ runs' = runs + 1
    /\ vpc' = "idle"
    /\ vexit' = "returned"
    /\ UNCHANGED <<fsvars, callvars, mainvars>>

\* lines 36-56
AnalyzeData ==
    /\ vpc = "loaded"
    /\ vpc' = "analyzed"
    /\ UNCHANGED <<vexit, runs, fsvars, callvars, mainvars>>

\* an error inside analyze_data (lines 42-54): neither analyze_data nor main
\* (line 115) has a handler, the process ends with the traceback
AnalyzeDataRaises ==
    /\ vpc = "loaded"
    /\ vpc' = "idle"
    /\ vexit' = "crashed"
    /\ UNCHANGED <<runs, fsvars, callvars, mainvars>>

\* lines 58-106: the directory is created and the four charts are saved
CreateVisualizations ==
    /\ vpc = "analyzed"
    /\ dirExists' = TRUE
    /\ files' = SaveCharts(files, 4)
    /\ vpc' = "idle"
    /\ vexit' = "finished"
    /\ UNCHANGED <<permanent, runs, callvars, mainvars>>

\* an error while drawing or saving chart k + 1: the charts before it are
\* saved, nothing catches the error (lines 58-106, 118)
CreateVisualizationsRaises ==
    /\ vpc = "analyzed"
    /\ dirExists' = TRUE
    /\ \E k \in 0..3 : files' = SaveCharts(files, k)
    /\ vpc' = "idle"
    /\ vexit' = "crashed"
    /\ UNCHANGED <<permanent, runs, callvars, mainvars>>

Pipeline ==
    \/ LoadAndExplore \/ LoadAndExploreFails
    \/ AnalyzeData \/ AnalyzeDataRaises
    \/ CreateVisualizations \/ CreateVisualizationsRaises

\* a call of fetch_and_save_image(url) before, between or after the runs
Fetch ==
    /\ mpc = "off"
    /\ \E url \in Urls :
          \E net \in Answers(url, CoreResponses) : Validate(url, net, MaxProbes)

\* both programs, run one after the other in any order
Next == Fetch \/ FetchStep \/ Pipeline

Spec == InitFetch /\ [][Next]_vars

\* ================================================================== claims
Returned == pc = "idle" /\ cur.result # "none"

\* two calls in a row that both reached the directory, the second finished
TwoCalls == pc = "idle" /\ prev.accepted /\ cur.accepted

NoIOError == prev.outcome \notin IOErrors /\ cur.outcome \notin IOErrors

\* C1: two calls in a row with the same bytes, neither interrupted by an I/O
\* error, into a directory that held no file with these bytes: exactly one
\* permanent file holds the bytes afterwards and the second call returned
\* False as a duplicate.
C1_SameBytesKeptOnce ==
    (TwoCalls /\ NoIOError /\ prev.body = cur.net.body /\ prev.fresh)
        => /\ Cardinality(Holding(files, permanent, cur.net.body)) = 1
           /\ cur.result = "False"
           /\ cur.outcome = "duplicate"

\* C2: every file under a final name holds the complete bytes of a download,
\* and the temporary path a call writes to is not the name of a permanent file.
C2_PermanentFilesComplete ==
    /\ \A n \in permanent : n \in DOMAIN files /\ files[n] \in Bodies
    /\ pc # "idle" => cur.temp \notin permanent

\* C3: when a call returns False after it created its temporary file
\* (duplicate, or an error while hashing, listing or renaming), the temporary
\* file is gone.
C3_TempRemovedOnFailure ==
    (Returned /\ cur.accepted /\ cur.result = "False"
       /\ cur.outcome \in {"duplicate", "error in hash", "error in rename"})
        => cur.temp \notin DOMAIN files

\* the smallest counter from 1 whose suffixed name was free in directory fs
SmallestFree(fs, filename) ==
    CHOOSE c \in 1..(Cardinality(DOMAIN fs) + 1) :
        /\ ~Exists(fs, Suffixed(filename, c))
        /\ \A d \in 1..(c - 1) : Exists(fs, Suffixed(filename, d))

TwoFilesKept ==
    /\ prev.result = "True" /\ cur.result = "True"
    /\ prev.path # cur.path
    /\ {prev.path, cur.path} \subseteq permanent
    /\ files[prev.path] = prev.body
    /\ files[cur.path] = cur.net.body
    /\ cur.path = Suffixed(cur.filename, SmallestFree(pre.files, cur.filename))

SameNameOtherBytes == TwoCalls /\ prev.filename = cur.filename /\ prev.body # cur.net.body

\* C4 as stated: two calls in a row with different bytes and the same derived
\* filename (no I/O error in either) both return True and leave two files.
C4_Original == (SameNameOtherBytes /\ NoIOError) => TwoFilesKept

\* C4 amended: the same, when neither body is already the content of a file
\* of the directory at the start of its call.
C4_CollidingNamesBothKept ==
    (SameNameOtherBytes /\ NoIOError /\ prev.fresh
       /\ Holding(pre.files, DOMAIN pre.files, cur.net.body) = {})
        => TwoFilesKept

C4_Witness ==
    /\ SameNameOtherBytes /\ prev.fresh
    /\ cur.outcome = "saved" /\ prev.outcome = "saved"
    /\ prev.path = Suffixed(prev.filename, 1)
    /\ cur.path = Suffixed(cur.filename, 2)

\* the response declares a length above 10 MiB
DeclaresOversize(net) ==
    /\ net.kind = "response"
    /\ "Content-Length" \in DOMAIN net.headers
    /\ IsNumber(net.headers["Content-Length"])
    /\ ParseInt(net.headers["Content-Length"]) > 10 * 1024 * 1024

\* C5: a call whose response declares a Content-Length above 10 MiB returns
\* False at once and the directory is as it was before the call (not created,
\* no file added, removed or changed).
C5_OversizeLeavesDirectory ==
    DeclaresOversize(cur.net)
        => pc = "idle" /\ cur.result = "False" /\ Snapshot = pre

C5_Witness ==
    /\ DeclaresOversize(cur.net) /\ cur.outcome = "toolarge"
    /\ HeaderGet(cur.net.headers, "Content-Type", <<>>) = Text_IMAGE_PNG
    /\ Cardinality(DOMAIN files) = 1

\* the response is a 2xx whose Content-Type is absent or, lowercased, does
\* not begin with image/
NotAnImage(net) ==
    /\ net.kind = "response" /\ net.status \in 200..299
    /\ \/ "Content-Type" \notin DOMAIN net.headers
       \/ ~StartsWith(Lower(net.headers["Content-Type"]), image_prefix)

\* C6: a call whose 2xx response has no image/ Content-Type returns False and
\* creates no permanent file (the directory's files are those before the call).
C6_NonImageRejected ==
    (cur.url.scheme \in {"http", "https"} /\ NotAnImage(cur.net))
        => /\ pc = "idle" /\ cur.result = "False"
           /\ permanent = pre.permanent /\ files = pre.files

C6_Witness ==
    /\ NotAnImage(cur.net) /\ cur.outcome = "notimage"
    /\ DOMAIN cur.net.headers = {"Content-Length"}
    /\ cur.net.headers["Content-Length"] = Text_at_limit
    /\ cur.url.name = MkName(0, "a", -1, <<>>, png)
    /\ permanent # {}

\* C7: no error inside load_and_explore_data, analyze_data,
\* create_visualizations or fetch_and_save_image leaves the operation and ends
\* the process.
C7_ErrorsCaughtAtBoundary == vexit # "crashed"

\* the number of calls of the log that returned True
Successes == Cardinality({i \in 1..Len(log) : log[i].ok})

\* C8: main calls fetch_and_save_image once per URL, in the order typed,
\* whatever the earlier calls returned, and prints successful/total with
\* successful the number of calls that returned True.
C8_OncePerUrlInOrder ==
    /\ Len(log) <= Len(urls)
    /\ \A i \in 1..Len(log) : log[i].url = urls[i]
    /\ mpc = "loop" =>
          /\ Len(log) = idx - 1
          /\ calls = Len(log) + (IF pc = "idle" THEN 0 ELSE 1)
          /\ pc # "idle" => cur.url = urls[idx]
          /\ successful = Successes
    /\ (mpc = "done" /\ urls # <<>>) =>
          /\ Len(log) = Len(urls)
          /\ calls = Len(urls)
          /\ summary = <<Successes, Len(urls)>>

C8_Witness ==
    /\ mpc = "done" /\ Len(urls) = MaxUrls
    /\ ~log[1].ok /\ log[Len(urls)].ok
    /\ summary = <<Successes, MaxUrls>>

\* C9: a successful run of create_visualizations leaves exactly the four
\* chart files in the directory (stated for the runs that start with no
\* leftover temporary file of a failed fetch in it).
C9_ExactlyFourCharts ==
    [][(vpc = "analyzed" /\ vexit' = "finished" /\ DOMAIN files \subseteq permanent \cup ChartNames)
          => DOMAIN files' = ChartNames]_vars

\* C10: a call returns True exactly when it added one permanent file, holding
\* the response bytes, which no permanent file held before; a call that
\* returns False leaves the set of permanent files as it was; either way every
\* permanent file of before the call keeps its name and content.
C10_ReturnMatchesDirectory ==
    Returned =>
        LET added == permanent \ pre.permanent
        IN  /\ cur.result = "True" <=>
                  /\ cur.accepted
                  /\ Cardinality(added) = 1
                  /\ \A n \in added : files[n] = cur.net.body
                  /\ Holding(pre.files, pre.permanent, cur.net.body) = {}
            /\ cur.result = "False" => permanent = pre.permanent
            /\ \A n \in pre.permanent : n \in permanent /\ files[n] = pre.files[n]

====
